---- MODULE Spec2Model ----
(***************************************************************************)
(* Model of src/main.py: the endpoint reddit_hot_comments_to_csv, which    *)
(* lists the hot posts of a subreddit, fetches the first batch of comments *)
(* of every post, flattens them and writes one CSV file, and of the writer *)
(* save_comments_csv.                                                      *)
(*                                                                         *)
(* JSON / Python values are tagged records [t, v]: t is the Python type    *)
(* ("null", "str", "num", "obj", "arr") and v the payload; a dict is a     *)
(* function from the keys that are present to values, so a missing key and *)
(* a key holding null are different inputs, as they are for dict.get.      *)
(***************************************************************************)
EXTENDS Integers, Sequences, FiniteSets, TLC

\* ---------------------------------------------------------------- bounds
\* most post entries the upstream puts in one listing response
MaxPosts == 2
\* most comment-forest child entries the upstream returns over one run
MaxChildren == 2

\* ------------------------------------------------------ program constants
PostsLimitMin == 1
PostsLimitDefault == 5
DelayMin == 0
DelayDefault == 250
MaxPostsPerHotRequest == 100
RedditBase == "https://www.reddit.com"
Subreddit == "python"
DATA_DIR == "data"
Timestamp == "2026-01-01_00-00-00"

\* ------------------------------------------------------------ JSON values
JNull == [t |-> "null", v |-> 0]
JStr(s) == [t |-> "str", v |-> s]
JNum(n) == [t |-> "num", v |-> n]
JObj(f) == [t |-> "obj", v |-> f]
JArr(s) == [t |-> "arr", v |-> s]
\* a response body that is not JSON at all: rc.json() raises on it
JBool(b) == [t |-> "bool", v |-> b]
JInvalid == [t |-> "invalid", v |-> 0]
EmptyDict == JObj([k \in {} |-> JNull])
EmptyList == JArr(<<>>)

IsDict(x) == x.t = "obj"
IsList(x) == x.t = "arr"
IsStr(x) == x.t = "str"

\* dict.get(k, default): the default only when the key is missing
Get(d, k, default) == IF k \in DOMAIN d.v THEN d.v[k] ELSE default

\* Python truthiness, as `if not children` evaluates it
Truthy(x) ==
    CASE x.t = "null" -> FALSE
      [] x.t = "arr" -> Len(x.v) > 0
      [] x.t = "obj" -> DOMAIN x.v # {}
      [] x.t = "str" -> x.v # ""
      [] x.t = "num" -> x.v # 0
      [] x.t = "bool" -> x.v
      [] OTHER -> TRUE

\* the result of evaluating a Python expression: a value or a raised exception
Value(x) == [ok |-> TRUE, val |-> x, exc |-> "none"]
Raise(e) == [ok |-> FALSE, val |-> JNull, exc |-> e]

\* `for c in x` followed by c.get(...): a list is walked; a string or dict
\* yields strings, on which .get raises, unless it is empty; anything else is
\* not iterable
Iterate(x) ==
    CASE x.t = "arr" -> Value(x)
      [] x.t \in {"str", "obj"} ->
            IF Truthy(x) THEN Raise("AttributeError") ELSE Value(EmptyList)
      [] OTHER -> Raise("TypeError")

\* ------------------------------------------------ what the upstream can send
\* the i-th entry of a listing response: a complete post, an entry without a
\* "data" object, something that is no object, an entry whose permalink is null
PostFull(i) ==
    JObj([kind |-> JStr("t3"),
          data |-> JObj([id |-> JStr("p" \o ToString(i)),
                         title |-> JStr("title " \o ToString(i)),
                         permalink |-> JStr("/r/python/comments/p" \o ToString(i))])])
PostBare == JObj([kind |-> JStr("t3")])
PostNullPermalink(i) ==
    JObj([kind |-> JStr("t3"),
          data |-> JObj([id |-> JStr("p" \o ToString(i)), permalink |-> JNull])])
PostEntries(i) == {PostFull(i), PostBare, JStr("x"), PostNullPermalink(i)}

RECURSIVE PostSeqs(_)
\* the listings of n entries
PostSeqs(n) ==
    IF n = 0 THEN {<<>>}
    ELSE {Append(s, e) : s \in PostSeqs(n - 1), e \in PostEntries(n)}

ListingWith(children) == JObj([kind |-> JStr("Listing"),
                               data |-> JObj([children |-> children])])
ListingBodies ==
    {ListingWith(JArr(s)) : s \in UNION {PostSeqs(n) : n \in 0..MaxPosts}}
      \cup {JInvalid, EmptyList, EmptyDict, ListingWith(JNull),
            ListingWith(JNum(1)), JObj([data |-> JNull])}

\* a response: the request raised (kind "exception"), came back with a
\* non-success status (kind "http_error"), or came back 2xx with a body
NetworkError == [kind |-> "exception", status |-> 0, body |-> JNull]
HttpError(st) == [kind |-> "http_error", status |-> st, body |-> JNull]
Ok(body) == [kind |-> "ok", status |-> 200, body |-> body]
NoResponse == [kind |-> "none", status |-> 0, body |-> JNull]

ListingOutcomes ==
    {NetworkError, HttpError(503), HttpError(404)} \cup {Ok(b) : b \in ListingBodies}

\* the j-th child entry of a comment forest: a comment node with some fields
\* present, one null and the rest missing; a comment node without "data"; a
\* continuation marker; something that is no object; a node whose data is null
CPart(j) ==
    JObj([kind |-> JStr("t1"),
          data |-> JObj([id |-> JStr("c" \o ToString(j)), author |-> JNull,
                         body |-> JStr("text " \o ToString(j)), score |-> JNum(j),
                         is_submitter |-> JBool(FALSE)])])
CBare == JObj([kind |-> JStr("t1")])
CMore(j) ==
    JObj([kind |-> JStr("more"),
          data |-> JObj([id |-> JStr("m" \o ToString(j)), parent_id |-> JStr("t3_p")])])
CNullData == JObj([kind |-> JStr("t1"), data |-> JNull])
CommentEntries(j) == {CPart(j), CBare, CMore(j), JNum(j), CNullData}

RECURSIVE CommentSeqs(_)
\* the comment forests of n entries
CommentSeqs(n) ==
    IF n = 0 THEN {<<>>}
    ELSE {Append(s, e) : s \in CommentSeqs(n - 1), e \in CommentEntries(n)}

Forest(children) == JObj([kind |-> JStr("Listing"),
                          data |-> JObj([children |-> children])])
PostPart == JObj([kind |-> JStr("Listing")])
CommentBodies ==
    {JArr(<<PostPart, Forest(JArr(s))>>) :
        s \in UNION {CommentSeqs(n) : n \in 0..MaxChildren}}
      \cup {JInvalid,
            JObj([message |-> JStr("Forbidden")]),
            JArr(<<PostPart>>),
            JArr(<<PostPart, JNum(0)>>),
            JArr(<<PostPart, EmptyDict>>),
            JArr(<<PostPart, JObj([data |-> JNull])>>),
            JArr(<<PostPart, Forest(JNull)>>)}
CommentOutcomes ==
    {NetworkError, HttpError(429)} \cup {Ok(b) : b \in CommentBodies}

\* the number of child entries a comment response carries
ChildCount(out) ==
    IF out.kind = "ok" /\ IsList(out.body) /\ Len(out.body.v) >= 2
       /\ IsDict(out.body.v[2]) /\ "data" \in DOMAIN out.body.v[2].v
       /\ IsDict(out.body.v[2].v["data"])
       /\ "children" \in DOMAIN out.body.v[2].v["data"].v
       /\ IsList(out.body.v[2].v["data"].v["children"])
    THEN Len(out.body.v[2].v["data"].v["children"].v)
    ELSE 0

RECURSIVE TotalChildren(_)
\* the number of child entries the responses received so far carried
TotalChildren(outs) ==
    IF outs = <<>> THEN 0 ELSE ChildCount(Head(outs)) + TotalChildren(Tail(outs))

\* ------------------------------------------------------------------ state
VARIABLES
    pc,               \* where the handler is
    posts_limit,      \* query parameter
    polite_delay_ms,  \* query parameter
    listing,          \* the response to the listing request
    children,         \* posts_json["data"]["children"]
    idx,              \* enumerate(children, start=1)
    cur,              \* the post fields of the iteration under way
    results,          \* the accumulated per-post results
    fetched,          \* the responses to the comment requests, in order
    effects,          \* the side effects so far: requests, sleeps, the write
    inflight,         \* network calls issued and not yet returned
    file,             \* the CSV artifact: NoFile until written
    summary,          \* the returned dict
    error             \* the exception that ended the run

vars == <<pc, posts_limit, polite_delay_ms, listing, children, idx, cur, results,
          fetched, effects, inflight, file, summary, error>>

Effect(op, arg) == [op |-> op, arg |-> arg]
NoError == [type |-> "none", status_code |-> 0]
Exception(type, status) == [type |-> type, status_code |-> status]
NoPost == [id |-> JNull, title |-> JNull, permalink |-> JNull, index_in_hot |-> 0]
NoSummary == [posts_processed |-> 0 - 1]
NoFile == [name |-> "", header |-> <<>>, rows |-> <<>>]

NoteUnexpected == "Resposta inesperada da API de comentarios."
NoteFirstBatch == "Somente a primeira leva; MoreComments nao expandidos."
ErrorText == "Erro ao buscar comentarios"

Fields == <<"subreddit", "post_id", "post_title", "post_index_in_hot",
            "post_permalink", "comment_id", "author", "body", "score",
            "created_utc", "parent_id", "is_submitter">>

Init ==
    /\ pc = "start"
    /\ posts_limit \in {PostsLimitMin, PostsLimitDefault}
    /\ polite_delay_ms \in {DelayMin, DelayDefault}
    /\ listing = NoResponse
    /\ children = <<>>
    /\ idx = 0
    /\ cur = NoPost
    /\ results = <<>>
    /\ fetched = <<>>
    /\ effects = <<>>
    /\ inflight = 0
    /\ file = NoFile
    /\ summary = NoSummary
    /\ error = NoError

\* ---------------------------------------------------------- listing stage
\* requests.get(hot_url, ...) is issued
SendListing ==
    /\ pc = "start"
    /\ pc' = "await_listing"
    /\ effects' = Append(effects, Effect("GET hot", posts_limit))
    /\ inflight' = inflight + 1
    /\ UNCHANGED <<posts_limit, polite_delay_ms, listing, children, idx, cur,
                   results, fetched, file, summary, error>>

\* posts_json = r.json(); children = posts_json.get("data", {}).get("children", [])
ListingChildren(body) ==
    IF body = JInvalid THEN Raise("JSONDecodeError")
    ELSE IF ~IsDict(body) THEN Raise("AttributeError")
    ELSE LET data == Get(body, "data", EmptyDict) IN
         IF ~IsDict(data) THEN Raise("AttributeError")
         ELSE Value(Get(data, "children", EmptyList))

\* mutant: the emptiness test is `children is None`, so an empty list passes
ListingStage_EmptyListPasses(out) ==
    IF out.kind = "exception" THEN Raise("HTTPException 500")
    ELSE IF out.kind = "http_error" THEN Raise("HTTPException upstream")
    ELSE LET c == ListingChildren(out.body) IN
         IF ~c.ok THEN c
         ELSE IF ~IsList(c.val) /\ ~Truthy(c.val) THEN Raise("HTTPException 404")
         ELSE Iterate(c.val)

\* the outcome of the listing stage: the list to iterate, or the exception raised
ListingStage(out) ==
    IF out.kind = "exception" THEN Raise("HTTPException 500")
    ELSE IF out.kind = "http_error" THEN Raise("HTTPException upstream")
    ELSE LET c == ListingChildren(out.body) IN
         IF ~c.ok THEN c
         ELSE IF ~Truthy(c.val) THEN Raise("HTTPException 404")
         ELSE Iterate(c.val)

StatusOf(out, exc) ==
    CASE exc = "HTTPException upstream" -> out.status
      [] exc = "HTTPException 404" -> 404
      [] OTHER -> 500

\* the listing request returns; the try/except and the emptiness test run
RecvListing ==
    /\ pc = "await_listing"
    /\ \E out \in ListingOutcomes :
         LET st == ListingStage(out) IN
         /\ listing' = out
         /\ inflight' = inflight - 1
         /\ IF st.ok
            THEN /\ children' = st.val.v
                 /\ idx' = 1
                 /\ pc' = "loop"
                 /\ error' = error
            ELSE /\ pc' = "failed"
                 /\ error' = Exception(st.exc, StatusOf(out, st.exc))
                 /\ UNCHANGED <<children, idx>>
    /\ UNCHANGED <<posts_limit, polite_delay_ms, cur, results, fetched, effects,
                   file, summary>>

\* ---------------------------------------------------------- per-post loop
\* mutant: the index is the 0-based position (enumerate without start=1)
PostOf_ZeroBased(child, i) ==
    IF ~IsDict(child) THEN Raise("AttributeError")
    ELSE LET data == Get(child, "data", EmptyDict) IN
         IF ~IsDict(data) THEN Raise("AttributeError")
         ELSE LET permalink == Get(data, "permalink", JStr("")) IN
              IF ~IsStr(permalink) THEN Raise("TypeError")
              ELSE Value([id |-> Get(data, "id", JNull),
                          title |-> Get(data, "title", JNull),
                          permalink |-> JStr(RedditBase \o permalink.v),
                          index_in_hot |-> i - 1])

\* data = child.get("data", {}); post_id, post_title, post_permalink
PostOf(child, i) ==
    IF ~IsDict(child) THEN Raise("AttributeError")
    ELSE LET data == Get(child, "data", EmptyDict) IN
         IF ~IsDict(data) THEN Raise("AttributeError")
         ELSE LET permalink == Get(data, "permalink", JStr("")) IN
              IF ~IsStr(permalink) THEN Raise("TypeError")
              ELSE Value([id |-> Get(data, "id", JNull),
                          title |-> Get(data, "title", JNull),
                          permalink |-> JStr(RedditBase \o permalink.v),
                          index_in_hot |-> i])

\* mutant: the loop stops one entry early
LoopEnded_OffByOne == idx >= Len(children)

\* for idx, child in enumerate(children, start=1): the iterator is exhausted
LoopEnded == idx > Len(children)

\* the head of one iteration: the post fields are read and the comment
\* request is issued
StartPost ==
    /\ pc = "loop"
    /\ ~LoopEnded
    /\ LET p == PostOf(children[idx], idx) IN
       IF p.ok
       THEN /\ cur' = p.val
            /\ effects' = Append(effects, Effect("GET comments", idx))
            /\ inflight' = inflight + 1
            /\ pc' = "await_comments"
            /\ error' = error
       ELSE /\ pc' = "aborted"
            /\ error' = Exception(p.exc, 500)
            /\ UNCHANGED <<cur, effects, inflight>>
    /\ UNCHANGED <<posts_limit, polite_delay_ms, listing, children, idx, results,
                   fetched, file, summary>>

\* rc.raise_for_status(); comments_json = rc.json() inside try/except Exception
FetchFailed(out) ==
    out.kind = "exception" \/ out.kind = "http_error" \/ out.body = JInvalid

\* mutant: the shape test forgets the length
UnexpectedShape_NoLengthTest(comments_json) == ~IsList(comments_json)

\* not isinstance(comments_json, list) or len(comments_json) < 2
UnexpectedShape(comments_json) ==
    ~IsList(comments_json) \/ Len(comments_json.v) < 2

\* comments_json[1].get("data", {}).get("children", [])
CommentsChildren(comments_json) ==
    IF Len(comments_json.v) < 2 THEN Raise("IndexError")
    ELSE LET second == comments_json.v[2] IN
         IF ~IsDict(second) THEN Raise("AttributeError")
         ELSE LET data == Get(second, "data", EmptyDict) IN
              IF ~IsDict(data) THEN Raise("AttributeError")
              ELSE Iterate(Get(data, "children", EmptyList))

\* the dict appended for one comment node
ExtractOne(cd) ==
    [id |-> Get(cd, "id", JNull),
     author |-> Get(cd, "author", JNull),
     body |-> Get(cd, "body", JNull),
     score |-> Get(cd, "score", JNull),
     created_utc |-> Get(cd, "created_utc", JNull),
     parent_id |-> Get(cd, "parent_id", JNull),
     is_submitter |-> Get(cd, "is_submitter", JNull)]

\* mutant: every node that has a kind is taken for a comment
IsCommentNode_AnyKind(c) == "kind" \in DOMAIN c.v

\* if c.get("kind") != "t1": continue
IsCommentNode(c) == Get(c, "kind", JNull) = JStr("t1")

RECURSIVE Extract(_, _, _)
\* for c in comments_children: ... extracted.append({...}), from position i on
Extract(cs, i, extracted) ==
    IF i > Len(cs) THEN Value(extracted)
    ELSE LET c == cs[i] IN
         IF ~IsDict(c) THEN Raise("AttributeError")
         ELSE IF ~IsCommentNode(c) THEN Extract(cs, i + 1, extracted)
         ELSE LET cd == Get(c, "data", EmptyDict) IN
              IF ~IsDict(cd) THEN Raise("AttributeError")
              ELSE Extract(cs, i + 1, Append(extracted, ExtractOne(cd)))

\* the comment sequence of a response that passed the shape test
Flatten(comments_json) ==
    LET cc == CommentsChildren(comments_json) IN
    IF ~cc.ok THEN cc ELSE Extract(cc.val.v, 1, <<>>)

\* mutant: the malformed branch keeps a placeholder comment
ShapeResult_KeepsComment(post) ==
    [post |-> post, comments |-> <<ExtractOne(EmptyDict)>>, note |-> NoteUnexpected]

\* the dicts appended by the except branch (its "error" text carries the
\* exception's message after this prefix), the shape branch and the normal path
ErrorResult(post) == [post |-> post, comments |-> <<>>, error |-> ErrorText]
ShapeResult(post) == [post |-> post, comments |-> <<>>, note |-> NoteUnexpected]
OkResult(post, extracted) ==
    [post |-> post, comments |-> extracted,
     comments_count_returned |-> Len(extracted), note |-> NoteFirstBatch]

\* if polite_delay_ms: time.sleep(polite_delay_ms / 1000.0)
Sleep(eff, ms) == IF ms # 0 THEN Append(eff, Effect("sleep", ms)) ELSE eff

\* mutant: the except branch continues without sleeping
AfterIteration_NoSleepOnError(eff, ms, result) ==
    IF "error" \in DOMAIN result THEN eff ELSE Sleep(eff, ms)

\* the tail of every branch of the iteration: the delay, whatever the result
AfterIteration(eff, ms, result) == Sleep(eff, ms)

\* the dict one iteration appends to results, or the exception it raises
Iteration(post, out) ==
    IF FetchFailed(out) THEN Value(ErrorResult(post))
    ELSE IF UnexpectedShape(out.body) THEN Value(ShapeResult(post))
    ELSE LET ex == Flatten(out.body) IN
         IF ~ex.ok THEN ex ELSE Value(OkResult(post, ex.val))

\* the comment request returns and the rest of the iteration runs: the
\* result is appended, the delay is slept and the loop moves on
RecvComments ==
    /\ pc = "await_comments"
    /\ \E out \in CommentOutcomes :
         /\ TotalChildren(fetched) + ChildCount(out) <= MaxChildren
         /\ LET it == Iteration(cur, out) IN
            /\ fetched' = Append(fetched, out)
            /\ inflight' = inflight - 1
            /\ IF it.ok
               THEN /\ results' = Append(results, it.val)
                    /\ effects' = AfterIteration(effects, polite_delay_ms, it.val)
                    /\ idx' = idx + 1
                    /\ pc' = "loop"
                    /\ error' = error
               ELSE /\ pc' = "aborted"
                    /\ error' = Exception(it.exc, 500)
                    /\ UNCHANGED <<results, effects, idx>>
    /\ UNCHANGED <<posts_limit, polite_delay_ms, listing, children, cur, file,
                   summary>>

\* ------------------------------------------------------------ write stage
\* the dict handed to writer.writerow for comment c of item
Row(subreddit, post, c) ==
    [subreddit |-> subreddit,
     post_id |-> post.id,
     post_title |-> post.title,
     post_index_in_hot |-> post.index_in_hot,
     post_permalink |-> post.permalink,
     comment_id |-> c.id,
     author |-> c.author,
     body |-> c.body,
     score |-> c.score,
     created_utc |-> c.created_utc,
     parent_id |-> c.parent_id,
     is_submitter |-> c.is_submitter]

\* mutant: the last comment of every item is not written
RowsOfItem_DropsLast(subreddit, item) ==
    [j \in 1..(Len(item.comments) - 1) |-> Row(subreddit, item.post, item.comments[j])]

\* for c in item.get("comments", []) or []: writer.writerow({...})
RowsOfItem(subreddit, item) ==
    [j \in 1..Len(item.comments) |-> Row(subreddit, item.post, item.comments[j])]

RECURSIVE RowsOf(_, _)
\* for item in results: ...
RowsOf(subreddit, rs) ==
    IF rs = <<>> THEN <<>>
    ELSE RowsOfItem(subreddit, Head(rs)) \o RowsOf(subreddit, Tail(rs))

FileName(subreddit) ==
    DATA_DIR \o "/reddit_" \o subreddit \o "_comments_" \o Timestamp \o ".csv"

\* save_comments_csv: the header, then one row per comment of every item
save_comments_csv(subreddit, rs) ==
    [name |-> FileName(subreddit), header |-> Fields, rows |-> RowsOf(subreddit, rs)]

\* csv_path = save_comments_csv(subreddit, results), once the loop has ended;
\* opening or writing the file can raise OSError
Write ==
    /\ pc = "loop"
    /\ LoopEnded
    /\ effects' = Append(effects, Effect("write", Len(results)))
    /\ \E written \in BOOLEAN :
         IF written
         THEN /\ file' = save_comments_csv(Subreddit, results)
              /\ pc' = "written"
              /\ error' = error
         ELSE /\ file' = file
              /\ pc' = "write_failed"
              /\ error' = Exception("OSError", 500)
    /\ UNCHANGED <<posts_limit, polite_delay_ms, listing, children, idx, cur,
                   results, fetched, inflight, summary>>

RECURSIVE TotalComments(_)
\* sum(len(x.get("comments", [])) for x in results)
TotalComments(rs) ==
    IF rs = <<>> THEN 0 ELSE Len(Head(rs).comments) + TotalComments(Tail(rs))

\* the returned dict
Summary(subreddit, rs, csv_path) ==
    [subreddit |-> subreddit,
     posts_processed |-> Len(rs),
     comments_total_returned |-> TotalComments(rs),
     csv_saved_to |-> csv_path,
     limits_reminder |-> [max_posts_per_hot_request |-> MaxPostsPerHotRequest]]

Return ==
    /\ pc = "written"
    /\ summary' = Summary(Subreddit, results, file.name)
    /\ pc' = "done"
    /\ UNCHANGED <<posts_limit, polite_delay_ms, listing, children, idx, cur,
                   results, fetched, effects, inflight, file, error>>

Next ==
    \/ SendListing
    \/ RecvListing
    \/ StartPost
    \/ RecvComments
    \/ Write
    \/ Return

Spec == Init /\ [][Next]_vars

\* ------------------------------------------------------------- vocabulary
\* the status of a per-post result: "error" marks a failed fetch, the
\* unexpected-response note a malformed one
Status(r) ==
    IF "error" \in DOMAIN r THEN "fetch_error"
    ELSE IF r.note = NoteUnexpected THEN "unexpected_shape"
    ELSE "ok"

\* ----------------------------------------------------------------- claims
EffectsWith(op) == {i \in 1..Len(effects) : effects[i].op = op}
Min(a, b) == IF a <= b THEN a ELSE b

\* the listing response carried a non-empty list of post entries
ListingNonEmpty ==
    /\ listing.kind = "ok"
    /\ IsDict(listing.body)
    /\ "data" \in DOMAIN listing.body.v
    /\ IsDict(listing.body.v["data"])
    /\ "children" \in DOMAIN listing.body.v["data"].v
    /\ IsList(listing.body.v["data"].v["children"])
    /\ Len(listing.body.v["data"].v["children"].v) > 0
ListingEntries == listing.body.v["data"].v["children"].v

\* C1: whatever a post's comment fetch returns (an exception, a malformed
\* response or a successful response with any body), the run does not abort
\* inside the per-post loop: the response just received always leaves a
\* result behind and the loop goes on.
C1_CommentFetchNeverAborts ==
    ~(pc = "aborted" /\ Len(fetched) = Len(results) + 1)

\* the listing failures: the request raised, a non-success status, no entries
C2_ListingFails(out) ==
    \/ out.kind = "exception"
    \/ out.kind = "http_error"
    \/ out.kind = "ok" /\ out.body \in {ListingWith(EmptyList), ListingWith(JNull),
                                       EmptyDict}

\* C2: a failed listing stage (request raised, non-success status, or zero
\* entries) ends the run with an HTTP error, and a run that ended in the
\* listing stage has issued no comment request, written no file and takes no
\* further step.
C2_ListingFailureIsTerminal ==
    /\ (listing # NoResponse /\ C2_ListingFails(listing)) =>
          /\ pc = "failed"
          /\ error.type \in {"HTTPException 500", "HTTPException upstream",
                             "HTTPException 404"}
          /\ listing.kind = "http_error" => error.status_code = listing.status
          /\ listing.kind = "ok" => error.status_code = 404
    /\ pc = "failed" =>
          /\ EffectsWith("GET comments") = {}
          /\ EffectsWith("write") = {}
          /\ fetched = <<>>
          /\ results = <<>>
          /\ file = NoFile
          /\ summary = NoSummary
          /\ inflight = 0
          /\ ~ENABLED Next
C2_Witness ==
    /\ pc = "failed"
    /\ listing = HttpError(503)
    /\ error = Exception("HTTPException upstream", 503)

\* C3: in a completed run over a non-empty listing, posts_processed equals the
\* number of entries the listing response carried, capped at posts_limit.
C3_PostsProcessedCapped ==
    (pc = "done" /\ ListingNonEmpty) =>
        summary.posts_processed = Min(Len(ListingEntries), posts_limit)


\* one pair for every comment held by the results
C4_CommentSlots ==
    UNION {{<<k, j>> : j \in 1..Len(results[k].comments)} : k \in 1..Len(results)}

\* C4: in a completed run the number of data rows of the artifact, the number
\* of comments held by the results and comments_total_returned are the same
\* number; one post without comments gives a header-only artifact and a total
\* of 0.
C4_RowsEqualComments ==
    pc \in {"written", "done"} =>
        /\ file.header = Fields
        /\ Len(file.rows) = Cardinality(C4_CommentSlots)
        /\ pc = "done" =>
              /\ summary.comments_total_returned = Len(file.rows)
              /\ summary.comments_total_returned = Cardinality(C4_CommentSlots)
              /\ (Len(results) = 1 /\ results[1].comments = <<>>) =>
                    /\ file.rows = <<>>
                    /\ summary.comments_total_returned = 0
C4_Witness ==
    /\ pc = "done"
    /\ Len(results) = 2
    /\ Len(results[1].comments) = 1
    /\ Len(results[2].comments) = 1
    /\ Len(file.rows) = 2
    /\ summary.comments_total_returned = 2

\* C5: a result whose status is fetch_error or unexpected_shape holds no
\* comments, at every point of the accumulation, and no row of the artifact
\* belongs to its post.
C5_FailedResultsAreEmpty ==
    \A k \in 1..Len(results) :
        Status(results[k]) \in {"fetch_error", "unexpected_shape"} =>
            /\ results[k].comments = <<>>
            /\ \A i \in 1..Len(file.rows) : file.rows[i].post_index_in_hot # k
C5_Witness ==
    /\ pc = "done"
    /\ Len(results) = 2
    /\ Status(results[1]) = "fetch_error"
    /\ Status(results[2]) = "ok"
    /\ Len(file.rows) = 2

\* the id a listing entry carries, null when it has none
C6_EntryId(child) ==
    IF "data" \in DOMAIN child.v /\ "id" \in DOMAIN child.v["data"].v
    THEN child.v["data"].v["id"]
    ELSE JNull

\* C6: the k-th result carries the k-th entry of the listing and has
\* index_in_hot = k: the results follow a prefix of the listing, in order,
\* whatever the posts' outcomes were.
C6_ResultsFollowListing ==
    /\ Len(results) <= Len(children)
    /\ ListingNonEmpty => children = ListingEntries
    /\ \A k \in 1..Len(results) :
          /\ results[k].post.index_in_hot = k
          /\ results[k].post.id = C6_EntryId(children[k])
C6_Witness ==
    /\ Len(results) = 2
    /\ Status(results[1]) = "fetch_error"
    /\ results[1].post.id = JStr("p1")
    /\ results[2].post.id = JStr("p2")
    /\ results[2].post.index_in_hot = 2

\* a 2xx response with a JSON body that is no sequence of two or more elements
C7_Malformed(out) ==
    /\ out.kind = "ok"
    /\ out.body # JInvalid
    /\ out.body.t # "arr" \/ Len(out.body.v) < 2

\* C7: a comment response that is valid JSON but not a sequence of at least
\* two elements never aborts the run: its post gets a result with the status
\* unexpected_shape and no comments, and the loop then stands at the next post
\* (or at the write after the last one); a run that reaches the write has a
\* result for every post of the listing.
C7_MalformedIsRecordedAndSkipped ==
    /\ \A k \in 1..Len(fetched) :
          C7_Malformed(fetched[k]) =>
              /\ Len(results) >= k
              /\ Status(results[k]) = "unexpected_shape"
              /\ results[k].comments = <<>>
              /\ (k = Len(fetched) /\ pc = "loop") =>
                    /\ idx = k + 1
                    /\ k < Len(children) => ENABLED StartPost
                    /\ k = Len(children) => ENABLED Write
    /\ pc \in {"written", "done"} => Len(results) = Len(children)
C7_Witness ==
    /\ Len(results) = 2
    /\ fetched[1] = Ok(JArr(<<PostPart>>))
    /\ Status(results[1]) = "unexpected_shape"
    /\ results[1].comments = <<>>
    /\ Status(results[2]) = "ok"
    /\ Len(results[2].comments) = 1

\* the positions of the comment requests in the effect log
C8_CommentRequests == EffectsWith("GET comments")

\* C8: at most one network call is in flight; the only listing request is the
\* first effect; the j-th comment request is the one for the j-th post, so
\* there is one per post, in listing order, never repeated; the file write
\* is the last effect, comes after a request and a result for every post, and
\* a completed run has made exactly one.
C8_EffectsAreOrdered ==
    /\ inflight \in {0, 1}
    /\ inflight = 1 <=> pc \in {"await_listing", "await_comments"}
    /\ effects # <<>> => effects[1].op = "GET hot"
    /\ EffectsWith("GET hot") \subseteq {1}
    /\ \A i \in C8_CommentRequests :
          effects[i].arg = Cardinality({m \in C8_CommentRequests : m <= i})
    /\ Cardinality(C8_CommentRequests) <= Len(children)
    /\ Cardinality(C8_CommentRequests) = Len(fetched) + (IF pc = "await_comments" THEN 1 ELSE 0)
    /\ \A i \in EffectsWith("write") :
          /\ i = Len(effects)
          /\ Cardinality(C8_CommentRequests) = Len(children)
          /\ Len(results) = Len(children)
    /\ Cardinality(EffectsWith("write")) <= 1
    /\ pc \in {"written", "done"} => Cardinality(EffectsWith("write")) = 1
C8_Witness ==
    /\ pc = "done"
    /\ effects = <<Effect("GET hot", posts_limit), Effect("GET comments", 1),
                   Effect("GET comments", 2), Effect("write", 2)>>

\* C9: with polite_delay_ms > 0 every finished iteration, whatever its status,
\* is followed by exactly one pause, before the next comment request or the
\* write; with polite_delay_ms = 0 there is no pause and the posts keep the
\* listing order in the results and in the artifact.
C9_DelayAfterEveryPost ==
    /\ polite_delay_ms > 0 =>
          /\ Cardinality(EffectsWith("sleep")) = Len(results)
          /\ \A i \in 1..Len(effects) :
                /\ (effects[i].op = "GET comments" /\ i < Len(effects)) =>
                      effects[i + 1] = Effect("sleep", polite_delay_ms)
                /\ effects[i].op = "sleep" =>
                      (i > 1 /\ effects[i - 1].op = "GET comments")
    /\ polite_delay_ms = 0 =>
          /\ EffectsWith("sleep") = {}
          /\ \A k \in 1..Len(results) : results[k].post.index_in_hot = k
          /\ \A i, j \in 1..Len(file.rows) :
                i < j => file.rows[i].post_index_in_hot <= file.rows[j].post_index_in_hot
C9_Witness ==
    /\ pc = "done"
    /\ Len(results) = 2
    /\ polite_delay_ms = DelayDefault
    /\ Status(results[1]) = "fetch_error"
    /\ Status(results[2]) = "unexpected_shape"
    /\ effects = <<Effect("GET hot", posts_limit),
                   Effect("GET comments", 1), Effect("sleep", DelayDefault),
                   Effect("GET comments", 2), Effect("sleep", DelayDefault),
                   Effect("write", 2)>>

\* what the claim reads off a response: the children of its second element,
\* the comment nodes among them, a field of a node (null when missing)
C10_CommentFields ==
    {"id", "author", "body", "score", "created_utc", "parent_id", "is_submitter"}
C10_Children(out) ==
    LET second == out.body.v[2].v IN
    IF "data" \in DOMAIN second /\ "children" \in DOMAIN second["data"].v
    THEN second["data"].v["children"].v
    ELSE <<>>
C10_IsT1(c) == "kind" \in DOMAIN c.v /\ c.v["kind"] = JStr("t1")
C10_Field(c, f) ==
    IF "data" \in DOMAIN c.v /\ f \in DOMAIN c.v["data"].v
    THEN c.v["data"].v[f]
    ELSE JNull
C10_Sequence(out) ==
    out.kind = "ok" /\ IsList(out.body) /\ Len(out.body.v) >= 2
\* every value the flattening reads has the JSON type the upstream documents:
\* objects where objects are expected, a list of objects as children; keys
\* may be missing anywhere
C10_WellTyped(out) ==
    LET second == out.body.v[2] IN
    /\ IsDict(second)
    /\ "data" \in DOMAIN second.v =>
          /\ IsDict(second.v["data"])
          /\ "children" \in DOMAIN second.v["data"].v =>
                LET cs == second.v["data"].v["children"] IN
                /\ IsList(cs)
                /\ \A i \in 1..Len(cs.v) :
                      /\ IsDict(cs.v[i])
                      /\ (C10_IsT1(cs.v[i]) /\ "data" \in DOMAIN cs.v[i].v) =>
                            IsDict(cs.v[i].v["data"])

\* C10: for a response that is a sequence of at least two elements, the
\* post's comments are the entries of the second element's children whose kind
\* is "t1", in the upstream order and nothing else, each with the seven fields,
\* a field missing upstream being null; missing keys never make the flattening
\* raise, only a value of the wrong JSON type does.
C10_FlattenKeepsCommentNodes ==
    /\ \A k \in 1..Len(results) :
          C10_Sequence(fetched[k]) =>
              LET cs == C10_Children(fetched[k])
                  T == {i \in 1..Len(cs) : C10_IsT1(cs[i])}
                  got == results[k].comments
              IN /\ Status(results[k]) = "ok"
                 /\ Len(got) = Cardinality(T)
                 /\ results[k].comments_count_returned = Cardinality(T)
                 /\ \A i \in T :
                       LET j == Cardinality({m \in T : m <= i}) IN
                       /\ DOMAIN got[j] = C10_CommentFields
                       /\ \A f \in C10_CommentFields : got[j][f] = C10_Field(cs[i], f)
    /\ \A k \in 1..Len(fetched) :
          (C10_Sequence(fetched[k]) /\ C10_WellTyped(fetched[k])) => Len(results) >= k
C10_Witness ==
    /\ Len(results) >= 1
    /\ fetched[1] = Ok(JArr(<<PostPart, Forest(JArr(<<CMore(1), CPart(2)>>))>>))
    /\ Len(results[1].comments) = 1
    /\ results[1].comments[1].id = JStr("c2")
    /\ results[1].comments[1].author = JNull
    /\ results[1].comments[1].created_utc = JNull

====
